---- MODULE Spec2Model ----
(* Verification model of the market-research assistant's core:            *)
(*   - RateLimiter            (app/core/services/rate_limit.py)           *)
(*   - classify_regime        (app/core/analyzers/regime.py)              *)
(*   - LLMClient / controller (app/core/services/llm_openai.py,           *)
(*                             app/core/controller.py)                    *)
(* Times are whole seconds of the monotonic clock; percentage and basis   *)
(* point deltas are integers in tenths of a unit.                         *)
EXTENDS Integers, Sequences, FiniteSets, TLC

VARIABLES
    max_ops,     \* RateLimiter.max_ops
    events,      \* RateLimiter.events (deque, oldest first)
    clock,       \* last value returned by time.monotonic()
    log,         \* history of finished allow() calls: [t, ok, exc, th]
    pc,          \* per thread: position inside allow()
    now,         \* per thread: the local variable now of allow()
    regime_in,   \* arguments of the classify_regime call
    regime_out,  \* result of the classify_regime call
    ctl_log,     \* history of finished controller operations
    rag_pc,      \* position inside retrieve_rag_fusion
    rag_in,      \* arguments of retrieve_rag_fusion: query, k, k_per_query
    llm_reply,   \* outcome of the model completion that writes the variants
    variants,    \* the local variable variants of retrieve_rag_fusion
    searches,    \* each similarity search issued, in order: [variant, exc, val]
    results_by_query,  \* the local variable results_by_query
    rag_out,     \* what retrieve_rag_fusion returned or raised
    call,        \* a function applied on its own: name and arguments
    ret,         \* what that function returned or raised
    llm_calls,   \* model completions issued: [op, t, allow]
    session_store,  \* llm_openai.session_store: session id -> messages
    controllers  \* session_id of each controller created, in order

limiter_vars == <<max_ops, events, clock, log, pc, now>>
regime_vars == <<regime_in, regime_out>>
rag_vars == <<rag_pc, rag_in, llm_reply, variants, searches, results_by_query, rag_out>>
fn_vars == <<call, ret>>
app_vars == <<llm_calls, session_store, controllers>>

vars == <<max_ops, events, clock, log, pc, now, regime_in, regime_out, ctl_log,
          rag_pc, rag_in, llm_reply, variants, searches, results_by_query,
          rag_out, call, ret, llm_calls, session_store, controllers>>

\* retrieve_rag_fusion is not running
RagIdle ==
    /\ rag_pc = "off"
    /\ rag_in = <<>>
    /\ llm_reply = <<>>
    /\ variants = <<>>
    /\ searches = <<>>
    /\ results_by_query = <<>>
    /\ rag_out = <<>>

\* no function is applied on its own
FnIdle ==
    /\ call = <<>>
    /\ ret = <<>>

\* no client and no controller has been created
AppIdle ==
    /\ llm_calls = <<>>
    /\ session_store = <<>>
    /\ controllers = <<>>

----
(* Bounds of the model *)

MaxOpsLimit == 3     \* largest max_ops_per_min explored
MaxCalls == 5        \* allow() calls in a sequential run
NumThreads == 2      \* concurrent callers of one RateLimiter
MaxThreadCalls == 3  \* allow() calls in a concurrent run
MaxCtlOps == 3       \* controller operations in a run
MaxK == 3            \* largest k passed to retrieve_rag_fusion
MaxPerQuery == 2     \* largest k_per_query passed to retrieve_rag_fusion
MaxLines == 2        \* lines in a model completion
MaxClientOps == 3    \* LLMClient operations in a run
MaxFiles == 2        \* files passed to an index builder
MaxChunks == 2       \* chunks the splitter cuts a file into
MaxControllers == 2  \* controllers created in one process
MaxMessages == 2     \* messages kept in one history

\* advances of the monotonic clock between two reads
ClockSteps == {0, 1, 59, 60, 61}
ThreadClockSteps == {0, 1, 61}
CtlClockSteps == {0, 61}

----
(* RateLimiter *)

WINDOW == 60

\* rate_limit.py:57  "self.events and now - self.events[0] > 60"
ExpiredMut(ev, n) == ev # <<>> /\ n - Head(ev) >= WINDOW
Expired(ev, n) == ev # <<>> /\ n - Head(ev) > WINDOW

\* rate_limit.py:57-58  the while loop popping from the left
PruneMut(ev, n) == IF Expired(ev, n) THEN Tail(ev) ELSE ev
RECURSIVE Prune(_, _)
Prune(ev, n) == IF Expired(ev, n) THEN Prune(Tail(ev), n) ELSE ev

\* rate_limit.py:59  "len(self.events) < self.max_ops"
HasRoomMut(ev, m) == Len(ev) <= m
HasRoom(ev, m) == Len(ev) < m

\* rate_limit.py:59-62  the deque after the admission decision
RecordMut(ev, m, n) == Append(ev, n)
Record(ev, m, n) == IF HasRoom(ev, m) THEN Append(ev, n) ELSE ev

\* rate_limit.py:44-62  allow() run to completion by a single caller
\* at clock reading n: <<return value, events afterwards>>
AllowResult(ev, m, n) ==
    LET kept == Prune(ev, n)
    IN  <<HasRoom(kept, m), Record(kept, m, n)>>

Threads == 1..NumThreads

LogEntry(n, ok, exc, th) == [t |-> n, ok |-> ok, exc |-> exc, th |-> th]

\* no classify_regime call and no controller in the rate limiter's runs
NoRegimeIn == <<>>
NoRegimeOut == <<>>

\* rate_limit.py:32-42  RateLimiter(max_ops_per_min): stores the limit as
\* given and starts with an empty deque
RateLimiterInit ==
    /\ max_ops \in (-1)..MaxOpsLimit
    /\ events = <<>>
    /\ clock = 0
    /\ log = <<>>

Init ==
    /\ RateLimiterInit
    /\ pc = [th \in Threads |-> "idle"]
    /\ now = [th \in Threads |-> 0]
    /\ regime_in = NoRegimeIn
    /\ regime_out = NoRegimeOut
    /\ ctl_log = <<>>
    /\ RagIdle
    /\ FnIdle
    /\ AppIdle

\* one allow() call of the single-threaded host, d seconds after the
\* previous clock reading
Allow(d) ==
    /\ Len(log) < MaxCalls
    /\ LET n == clock + d
           r == AllowResult(events, max_ops, n)
       IN  /\ clock' = n
           /\ events' = r[2]
           /\ log' = Append(log, LogEntry(n, r[1], FALSE, 0))
    /\ UNCHANGED <<max_ops, pc, now, regime_in, regime_out, ctl_log, rag_vars, fn_vars, app_vars>>

Next == \E d \in ClockSteps : Allow(d)

Spec == Init /\ [][Next]_vars

----
(* RateLimiter.allow() called by several threads of one process.  The    *)
(* method takes no lock, so the interpreter may switch threads between   *)
(* any two of its steps; each step below is one deque or clock operation *)
(* that the interpreter runs atomically.                                 *)

InFlight == {th \in Threads : pc[th] # "idle"}

Finish(th, ok, exc) ==
    /\ log' = Append(log, LogEntry(now[th], ok, exc, th))
    /\ pc' = [pc EXCEPT ![th] = "idle"]

\* rate_limit.py:56  now = time.monotonic()
ThreadReadClock(th, d) ==
    /\ pc[th] = "idle"
    /\ Len(log) + Cardinality(InFlight) < MaxThreadCalls
    /\ clock' = clock + d
    /\ now' = [now EXCEPT ![th] = clock + d]
    /\ pc' = [pc EXCEPT ![th] = "while"]
    /\ UNCHANGED <<max_ops, events, log, regime_in, regime_out, ctl_log, rag_vars, fn_vars, app_vars>>

\* rate_limit.py:57  truth value of self.events
ThreadTestNonEmpty(th) ==
    /\ pc[th] = "while"
    /\ pc' = [pc EXCEPT ![th] = IF events # <<>> THEN "head" ELSE "if"]
    /\ UNCHANGED <<max_ops, events, clock, log, now, regime_in, regime_out, ctl_log, rag_vars, fn_vars, app_vars>>

\* rate_limit.py:57  now - self.events[0] > 60; indexing a deque that
\* another thread has emptied meanwhile raises IndexError
ThreadTestHead(th) ==
    /\ pc[th] = "head"
    /\ IF events = <<>>
       THEN Finish(th, FALSE, TRUE)
       ELSE /\ pc' = [pc EXCEPT ![th] =
                        IF now[th] - Head(events) > WINDOW THEN "popleft" ELSE "if"]
            /\ log' = log
    /\ UNCHANGED <<max_ops, events, clock, now, regime_in, regime_out, ctl_log, rag_vars, fn_vars, app_vars>>

\* rate_limit.py:58  self.events.popleft(); IndexError on an empty deque
ThreadPopLeft(th) ==
    /\ pc[th] = "popleft"
    /\ IF events = <<>>
       THEN Finish(th, FALSE, TRUE) /\ events' = events
       ELSE /\ events' = Tail(events)
            /\ pc' = [pc EXCEPT ![th] = "while"]
            /\ log' = log
    /\ UNCHANGED <<max_ops, clock, now, regime_in, regime_out, ctl_log, rag_vars, fn_vars, app_vars>>

\* rate_limit.py:59,62  if len(self.events) < self.max_ops ... return False
ThreadCheck(th) ==
    /\ pc[th] = "if"
    /\ IF HasRoom(events, max_ops)
       THEN pc' = [pc EXCEPT ![th] = "append"] /\ log' = log
       ELSE Finish(th, FALSE, FALSE)
    /\ UNCHANGED <<max_ops, events, clock, now, regime_in, regime_out, ctl_log, rag_vars, fn_vars, app_vars>>

\* rate_limit.py:60-61  self.events.append(now); return True
ThreadAppend(th) ==
    /\ pc[th] = "append"
    /\ events' = Append(events, now[th])
    /\ Finish(th, TRUE, FALSE)
    /\ UNCHANGED <<max_ops, clock, now, regime_in, regime_out, ctl_log, rag_vars, fn_vars, app_vars>>

NextThreads ==
    \E th \in Threads :
        \/ \E d \in ThreadClockSteps : ThreadReadClock(th, d)
        \/ ThreadTestNonEmpty(th)
        \/ ThreadTestHead(th)
        \/ ThreadPopLeft(th)
        \/ ThreadCheck(th)
        \/ ThreadAppend(th)

SpecThreads == Init /\ [][NextThreads]_vars

----
(* classify_regime *)

\* float | None arguments: None is the empty tuple, a number v is <<v>>
None == <<>>
Some(v) == <<v>>
Present(x) == x # None
Val(x) == x[1]

\* dict lookups: d[k] raises KeyError when k is not a key of d
Has(d, k) == k \in DOMAIN d
Has2(d, a, b) == Has(d, a) /\ Has(d[a], b)

\* regime.py:127-129  risk_on; "and" does not read vix_pct_max when the
\* stock test fails
RiskOnMut(spx, vix, th) ==
    /\ Val(spx) > th["risk_on"]["spx_pct_min"]
    /\ Val(vix) <= th["risk_on"]["vix_pct_max"]
RiskOn(spx, vix, th) ==
    /\ Val(spx) >= th["risk_on"]["spx_pct_min"]
    /\ Val(vix) <= th["risk_on"]["vix_pct_max"]

RiskOnRaises(spx, vix, th) ==
    \/ ~Has2(th, "risk_on", "spx_pct_min")
    \/ /\ Val(spx) >= th["risk_on"]["spx_pct_min"]
       /\ ~Has(th["risk_on"], "vix_pct_max")

\* regime.py:138-142  usd_context before the tie-breaker
UsdContextMut(dxy, th, labels) ==
    IF Present(dxy)
    THEN IF Val(dxy) >= th["usd_soft"]["dxy_pct_max"]
         THEN labels["usd_soft"]
         ELSE labels["usd_firm"]
    ELSE labels["usd_firm"]
UsdContext(dxy, th, labels) ==
    IF Present(dxy)
    THEN IF Val(dxy) <= th["usd_soft"]["dxy_pct_max"]
         THEN labels["usd_soft"]
         ELSE labels["usd_firm"]
    ELSE labels["usd_firm"]

UsdContextRaises(dxy, th, labels) ==
    \/ ~Has(labels, "usd_firm")
    \/ /\ Present(dxy)
       /\ \/ ~Has2(th, "usd_soft", "dxy_pct_max")
          \/ /\ Val(dxy) <= th["usd_soft"]["dxy_pct_max"]
             /\ ~Has(labels, "usd_soft")

\* regime.py:144-150  yields label
YieldsLabelMut(ust, th, labels) ==
    IF Present(ust)
    THEN IF Val(ust) > th["yields_rising"]["ust10y_bp_min"]
         THEN labels["yields_rising"]
         ELSE labels["yields_mixed"]
    ELSE labels["yields_mixed"]
YieldsLabel(ust, th, labels) ==
    IF Present(ust)
    THEN IF Val(ust) >= th["yields_rising"]["ust10y_bp_min"]
         THEN labels["yields_rising"]
         ELSE labels["yields_mixed"]
    ELSE labels["yields_mixed"]

YieldsLabelRaises(ust, th, labels) ==
    \/ ~Has(labels, "yields_mixed")
    \/ /\ Present(ust)
       /\ \/ ~Has2(th, "yields_rising", "ust10y_bp_min")
          \/ /\ Val(ust) >= th["yields_rising"]["ust10y_bp_min"]
             /\ ~Has(labels, "yields_rising")

\* regime.py:152-155  condition of the us-exceptionalism tie-breaker
UsExceptionalism(spx, dxy, tb) ==
    /\ Present(dxy)
    /\ Val(spx) >= tb["us_exceptionalism"]["spx_min"]
    /\ Val(dxy) >= tb["us_exceptionalism"]["dxy_min"]

\* regime.py:152-156  the tie-breaker overrides usd_context
TieBreakMut(usd_context, spx, dxy, tb, labels) ==
    IF UsExceptionalism(spx, dxy, tb) /\ usd_context # labels["usd_soft"]
    THEN labels["usd_usx"]
    ELSE usd_context
TieBreak(usd_context, spx, dxy, tb, labels) ==
    IF UsExceptionalism(spx, dxy, tb)
    THEN labels["usd_usx"]
    ELSE usd_context

TieBreakRaises(spx, dxy, tb, labels) ==
    /\ Present(dxy)
    /\ \/ ~Has2(tb, "us_exceptionalism", "spx_min")
       \/ /\ Val(spx) >= tb["us_exceptionalism"]["spx_min"]
          /\ \/ ~Has(tb["us_exceptionalism"], "dxy_min")
             \/ /\ Val(dxy) >= tb["us_exceptionalism"]["dxy_min"]
                /\ ~Has(labels, "usd_usx")

Returned(regime, usd_context, yields, note) ==
    [exc |-> "none", regime |-> regime, usd_context |-> usd_context,
     yields |-> yields, note |-> note]

Raised(e) ==
    [exc |-> e, regime |-> "", usd_context |-> "", yields |-> "", note |-> ""]

\* regime.py:119-125 and 130-136  the two risk-off returns
RiskOff(labels, note) ==
    IF Has(labels, "risk_off")
    THEN Returned(labels["risk_off"], "n/a", "n/a", note)
    ELSE Raised("KeyError")

\* regime.py:138-164  the risk-on branch
RiskOnBranch(spx, dxy, ust, th, tb, labels) ==
    IF UsdContextRaises(dxy, th, labels) THEN Raised("KeyError")
    ELSE IF YieldsLabelRaises(ust, th, labels) THEN Raised("KeyError")
    ELSE IF TieBreakRaises(spx, dxy, tb, labels) THEN Raised("KeyError")
    ELSE IF ~Has(labels, "risk_on") THEN Raised("KeyError")
    ELSE Returned(labels["risk_on"],
                  TieBreak(UsdContext(dxy, th, labels), spx, dxy, tb, labels),
                  YieldsLabel(ust, th, labels),
                  "Falling VIX and rising stocks confirm risk-on; USD/yields provide sector bias context.")

\* regime.py:84-164
classify_regime(spx, vix, dxy, ust, cfg) ==
    IF ~Has(cfg, "labels") \/ ~Has(cfg, "thresholds") \/ ~Has(cfg, "tie_breakers")
    THEN Raised("KeyError")
    ELSE LET labels == cfg["labels"]
             th == cfg["thresholds"]
             tb == cfg["tie_breakers"]
         IN  IF ~Present(spx) \/ ~Present(vix)
             THEN RiskOff(labels, "Insufficient signals to confirm risk-on.")
             ELSE IF RiskOnRaises(spx, vix, th) THEN Raised("KeyError")
             ELSE IF ~RiskOn(spx, vix, th)
             THEN RiskOff(labels, "Stocks/VIX not confirming risk appetite.")
             ELSE RiskOnBranch(spx, dxy, ust, th, tb, labels)

(* Inputs of classify_regime explored by the model *)

SpxValues == {None, Some(4), Some(5), Some(10), Some(12)}
VixValues == {None, Some(-30), Some(0), Some(1)}
DxyValues == {None, Some(-5), Some(-4), Some(-3), Some(5), Some(8)}
UstValues == {None, Some(99), Some(100), Some(120)}

Labels ==
    [risk_off |-> "Risk-Off", risk_on |-> "Risk-On",
     usd_firm |-> "USD firm", usd_soft |-> "USD soft",
     usd_usx |-> "US exceptionalism",
     yields_mixed |-> "Yields mixed", yields_rising |-> "Yields rising"]

Config(spx_min, tb_spx_min, tb_dxy_min) ==
    [labels |-> Labels,
     thresholds |->
        [risk_on |-> [spx_pct_min |-> spx_min, vix_pct_max |-> 0],
         usd_soft |-> [dxy_pct_max |-> -3],
         yields_rising |-> [ust10y_bp_min |-> 100]],
     tie_breakers |->
        [us_exceptionalism |-> [spx_min |-> tb_spx_min, dxy_min |-> tb_dxy_min]]]

\* configs holding every key classify_regime reads
CompleteConfigs ==
    {Config(a, b, c) : a \in {5, 10}, b \in {5, 12}, c \in {-5, 5, 9}}

\* every key classify_regime reads, as a path from the top of the config
KeyPaths ==
    {<<"labels">>, <<"thresholds">>, <<"tie_breakers">>}
    \cup {<<"labels", k>> : k \in DOMAIN Labels}
    \cup {<<"thresholds", "risk_on">>, <<"thresholds", "usd_soft">>,
          <<"thresholds", "yields_rising">>,
          <<"tie_breakers", "us_exceptionalism">>}
    \cup {<<"thresholds", "risk_on", "spx_pct_min">>,
          <<"thresholds", "risk_on", "vix_pct_max">>,
          <<"thresholds", "usd_soft", "dxy_pct_max">>,
          <<"thresholds", "yields_rising", "ust10y_bp_min">>,
          <<"tie_breakers", "us_exceptionalism", "spx_min">>,
          <<"tie_breakers", "us_exceptionalism", "dxy_min">>}

RECURSIVE Without(_, _)
Without(d, path) ==
    IF Len(path) = 1
    THEN [k \in DOMAIN d \ {path[1]} |-> d[k]]
    ELSE [k \in DOMAIN d |-> IF k = path[1] THEN Without(d[k], Tail(path)) ELSE d[k]]

\* configs with one required key missing
IncompleteConfigs ==
    {Without(Config(5, 5, -5), path) : path \in KeyPaths}

NoCall ==
    [exc |-> "pending", regime |-> "", usd_context |-> "", yields |-> "", note |-> ""]

InitRegime ==
    /\ regime_in \in [spx : SpxValues, vix : VixValues, dxy : DxyValues,
                      ust : UstValues, cfg : CompleteConfigs \cup IncompleteConfigs]
    /\ regime_out = NoCall
    /\ max_ops = 0
    /\ events = <<>>
    /\ clock = 0
    /\ log = <<>>
    /\ pc = [th \in Threads |-> "idle"]
    /\ now = [th \in Threads |-> 0]
    /\ ctl_log = <<>>
    /\ RagIdle
    /\ FnIdle
    /\ AppIdle

Classify ==
    /\ regime_out = NoCall
    /\ regime_out' = classify_regime(regime_in.spx, regime_in.vix, regime_in.dxy,
                                     regime_in.ust, regime_in.cfg)
    /\ UNCHANGED <<max_ops, events, clock, log, pc, now, regime_in, ctl_log, rag_vars, fn_vars, app_vars>>

NextRegime == Classify

SpecRegime == InitRegime /\ [][NextRegime]_vars

----
(* LLMClient behind the RateLimiter, and the controller operations that   *)
(* call it.  A reply of the client is modelled by what the controller     *)
(* reads from it: the attributes of the result object and the keys of the *)
(* metadata dict.  A model completion that is actually issued either      *)
(* answers or raises.                                                     *)

Completions == {"answers", "raises"}

Reply(exc, attrs, meta) == [exc |-> exc, attrs |-> attrs, meta |-> meta]

\* models.py:39-52  fields of MarketPulse
MarketPulseFields ==
    {"as_of", "detected_regime", "sectors", "global_summary", "citations"}

\* llm_openai.py:236-237  fields of the local class RateLimitError
RateLimitErrorFields == {"error"}

\* llm_openai.py:149-206  LLMClient.chat
Chat(admitted, completion) ==
    IF ~admitted
    THEN Reply("none", {}, {"tokens_in", "tokens_out", "model", "rate_limited"})
    ELSE IF completion = "raises"
    THEN Reply("LLMError", {}, {})
    ELSE Reply("none", {}, {"tokens_in", "tokens_out", "model"})

\* llm_openai.py:208-278  LLMClient.chat_structured
ChatStructured(admitted, completion) ==
    IF ~admitted
    THEN Reply("none", RateLimitErrorFields,
               {"tokens_in", "tokens_out", "model", "rate_limited"})
    ELSE IF completion = "raises"
    THEN Reply("LLMError", {}, {})
    ELSE Reply("none", MarketPulseFields, {"tokens_in", "tokens_out", "model"})

\* llm_openai.py:492-619  LLMClient.chat_with_tools_and_history; a failing
\* completion is caught and reported in the reply text
ChatWithToolsAndHistory(admitted, completion) ==
    IF ~admitted
    THEN Reply("none", {},
               {"model", "tokens_in", "tokens_out", "tools_used", "rate_limited"})
    ELSE IF completion = "raises"
    THEN Reply("none", {},
               {"tokens_in", "tokens_out", "tools_used", "model", "session_id"})
    ELSE Reply("none", {},
               {"tokens_in", "tokens_out", "tools_used", "model", "session_id"})

\* controller.py:142-158 with its call sites: meta["model"],
\* meta["tokens_in"], meta["tokens_out"]
TrackUsageRaises(meta) == ~({"model", "tokens_in", "tokens_out"} \subseteq meta)

\* controller.py:267-277 / 462-491  after LLMClient.chat returned
AfterChat(r) ==
    IF r.exc # "none" THEN r.exc
    ELSE IF TrackUsageRaises(r.meta) THEN "KeyError"
    ELSE "returned"

\* controller.py:229-246  after chat_with_tools_and_history returned
AfterChatWithTools(r) ==
    IF r.exc # "none" THEN r.exc
    ELSE IF TrackUsageRaises(r.meta) THEN "KeyError"
    ELSE "returned"

\* controller.py:352-377  after chat_structured returned: reads
\* result.detected_regime and assigns result.citations
AfterChatStructured(r) ==
    IF r.exc # "none" THEN r.exc
    ELSE IF TrackUsageRaises(r.meta) THEN "KeyError"
    ELSE IF "detected_regime" \notin r.attrs THEN "AttributeError"
    ELSE IF "citations" \notin r.attrs THEN "ValueError"
    ELSE "returned"

CtlEntry(op, reached, limited, outcome) ==
    [op |-> op, reached_llm |-> reached, rate_limited |-> limited,
     outcome |-> outcome]

\* the allow() call made by the client at the head of each chat method
\* (llm_openai.py:172, 234, 524), followed by the rest of the operation,
\* whose outcome is given for an admitted and for a rejected call
ThroughGate(op, d, admitted, rejected) ==
    LET n == clock + d
        r == AllowResult(events, max_ops, n)
    IN  /\ clock' = n
        /\ events' = r[2]
        /\ log' = Append(log, LogEntry(n, r[1], FALSE, 0))
        /\ ctl_log' = Append(ctl_log, CtlEntry(op, TRUE, ~r[1],
                                         IF r[1] THEN admitted ELSE rejected))

\* the operation stops in its own preparation, before the client is called
StopsEarly(op, outcome) ==
    /\ ctl_log' = Append(ctl_log, CtlEntry(op, FALSE, FALSE, outcome))
    /\ UNCHANGED <<clock, events, log>>

\* controller.py:248-277
GreetAndOpen(d, completion) ==
    /\ Len(ctl_log) < MaxCtlOps
    /\ ThroughGate("greet_and_open", d,
                   AfterChat(Chat(TRUE, completion)),
                   AfterChat(Chat(FALSE, completion)))
    /\ UNCHANGED <<max_ops, pc, now, regime_in, regime_out, rag_vars, fn_vars, app_vars>>

\* controller.py:202-246; the security checks of lines 216-220 may raise
AiDeskChat(d, input_ok, completion) ==
    /\ Len(ctl_log) < MaxCtlOps
    /\ IF input_ok
       THEN ThroughGate("ai_desk_chat", d,
                AfterChatWithTools(ChatWithToolsAndHistory(TRUE, completion)),
                AfterChatWithTools(ChatWithToolsAndHistory(FALSE, completion)))
       ELSE StopsEarly("ai_desk_chat", "SecurityError")
    /\ UNCHANGED <<max_ops, pc, now, regime_in, regime_out, rag_vars, fn_vars, app_vars>>

\* controller.py:279-377; the market data and retrieval calls of lines
\* 299-323 may raise
RunMarketPulse(d, data_ok, completion) ==
    /\ Len(ctl_log) < MaxCtlOps
    /\ IF data_ok
       THEN ThroughGate("run_market_pulse", d,
                AfterChatStructured(ChatStructured(TRUE, completion)),
                AfterChatStructured(ChatStructured(FALSE, completion)))
       ELSE StopsEarly("run_market_pulse", "DataError")
    /\ UNCHANGED <<max_ops, pc, now, regime_in, regime_out, rag_vars, fn_vars, app_vars>>

\* controller.py:379-491; a ValueError of the ticker lookup returns an
\* error analysis at lines 396-417
RunTickerDeepDive(d, data_ok, completion) ==
    /\ Len(ctl_log) < MaxCtlOps
    /\ IF data_ok
       THEN ThroughGate("run_ticker_deep_dive", d,
                AfterChat(Chat(TRUE, completion)),
                AfterChat(Chat(FALSE, completion)))
       ELSE StopsEarly("run_ticker_deep_dive", "returned")
    /\ UNCHANGED <<max_ops, pc, now, regime_in, regime_out, rag_vars, fn_vars, app_vars>>

NextController ==
    \E d \in CtlClockSteps, ready \in BOOLEAN, completion \in Completions :
        \/ GreetAndOpen(d, completion)
        \/ AiDeskChat(d, ready, completion)
        \/ RunMarketPulse(d, ready, completion)
        \/ RunTickerDeepDive(d, ready, completion)

\* controller.py:62-84  the controller builds its RateLimiter (the
\* application passes a positive ops_per_min, ui/state.py:49) and client
InitController ==
    /\ max_ops \in 1..MaxOpsLimit
    /\ events = <<>>
    /\ clock = 0
    /\ log = <<>>
    /\ pc = [th \in Threads |-> "idle"]
    /\ now = [th \in Threads |-> 0]
    /\ regime_in = NoRegimeIn
    /\ regime_out = NoRegimeOut
    /\ ctl_log = <<>>
    /\ RagIdle
    /\ FnIdle
    /\ AppIdle

SpecController == InitController /\ [][NextController]_vars

----
(* Model completions issued by the LLMClient methods and by                *)
(* generate_query_variants.  llm_calls records each completion with the    *)
(* time it is issued and the number of the allow() call that admitted the  *)
(* method, 0 when the method makes no allow() call.                        *)

LlmCall(op, t, a) == [op |-> op, t |-> t, allow |-> a]

ClientOps == Len(log) + Cardinality({i \in 1..Len(llm_calls) : llm_calls[i].allow = 0})

\* the allow() call at the head of a chat method (llm_openai.py:172, 234,
\* 309, 391, 524) and, when it admits, the completions the method issues
ClientCall(op, d, completions) ==
    LET n == clock + d
        r == AllowResult(events, max_ops, n)
    IN  /\ clock' = n
        /\ events' = r[2]
        /\ log' = Append(log, LogEntry(n, r[1], FALSE, 0))
        /\ llm_calls' =
              IF r[1]
              THEN llm_calls \o [i \in 1..completions |-> LlmCall(op, n, Len(log) + 1)]
              ELSE llm_calls
        /\ UNCHANGED <<max_ops, pc, now, regime_vars, ctl_log, rag_vars, fn_vars,
                       session_store, controllers>>

\* llm_openai.py:149-206  chat: chain.invoke at line 198
ClientChat(d) ==
    /\ ClientOps < MaxClientOps
    /\ ClientCall("chat", d, 1)

\* llm_openai.py:208-278  chat_structured: raw_chain.invoke at line 266
\* and, unless it raised, structured_chain.invoke at line 269
ClientChatStructured(d, raw_ok) ==
    /\ ClientOps < MaxClientOps
    /\ ClientCall("chat_structured", d, IF raw_ok THEN 2 ELSE 1)

\* llm_openai.py:280-359  chat_with_history: final_chain.invoke at line 347
ClientChatWithHistory(d) ==
    /\ ClientOps < MaxClientOps
    /\ ClientCall("chat_with_history", d, 1)

\* llm_openai.py:361-490  chat_with_tools: chain.invoke at line 474 and,
\* when the model asked for tools, _generate_final_response (line 695)
ClientChatWithTools(d, tool_calls) ==
    /\ ClientOps < MaxClientOps
    /\ ClientCall("chat_with_tools", d, IF tool_calls THEN 2 ELSE 1)

\* llm_openai.py:492-619  chat_with_tools_and_history: final_chain.invoke
\* at line 598 and, when the model asked for tools, line 695
ClientChatWithToolsAndHistory(d, tool_calls) ==
    /\ ClientOps < MaxClientOps
    /\ ClientCall("chat_with_tools_and_history", d, IF tool_calls THEN 2 ELSE 1)

\* retrievers.py:126-129  generate_query_variants builds its own ChatOpenAI
\* and invokes it; no RateLimiter is involved
VariantGeneration(d) ==
    /\ ClientOps < MaxClientOps
    /\ clock' = clock + d
    /\ llm_calls' = Append(llm_calls, LlmCall("generate_query_variants", clock + d, 0))
    /\ UNCHANGED <<max_ops, events, log, pc, now, regime_vars, ctl_log, rag_vars,
                   fn_vars, session_store, controllers>>

NextClient ==
    \E d \in CtlClockSteps, flag \in BOOLEAN :
        \/ ClientChat(d)
        \/ ClientChatStructured(d, flag)
        \/ ClientChatWithHistory(d)
        \/ ClientChatWithTools(d, flag)
        \/ ClientChatWithToolsAndHistory(d, flag)
        \/ VariantGeneration(d)

\* controller.py:79-82  a client built with a RateLimiter of a positive
\* limit
InitClient == InitController

SpecClient == InitClient /\ [][NextClient]_vars

----
(* Retrieval fusion (app/core/services/retrievers.py).  Strings that the  *)
(* code takes apart or glues together are sequences of one-character      *)
(* strings.  A Document is [metadata, page_content]; page_content is      *)
(* [prefix, rest], its first 256 characters and what follows them.        *)

Min(a, b) == IF a <= b THEN a ELSE b
Max(a, b) == IF a >= b THEN a ELSE b

\* seq[:n] of Python, for any integer n
PySlice(seq, n) ==
    IF n >= 0
    THEN SubSeq(seq, 1, Min(n, Len(seq)))
    ELSE SubSeq(seq, 1, Max(Len(seq) + n, 0))

\* dict.get(key, default)
MetaGet(md, key, default) == IF key \in DOMAIN md THEN md[key] ELSE default

Digits == <<"0", "1", "2", "3", "4", "5", "6", "7", "8", "9">>

\* str(n) of a non-negative int
RECURSIVE DecimalStr(_)
DecimalStr(n) ==
    IF n < 10
    THEN <<Digits[n + 1]>>
    ELSE DecimalStr(n \div 10) \o <<Digits[(n % 10) + 1]>>

\* retrievers.py:148  hashlib.sha256(text).hexdigest(): equal texts give
\* equal digests and different texts different ones
Sha256Hex(text) == <<"sha256(" \o text \o ")">>

\* retrievers.py:145  str(doc.metadata.get("start_index", ""))
StartStr(doc) ==
    IF "start_index" \in DOMAIN doc.metadata
    THEN DecimalStr(doc.metadata["start_index"])
    ELSE <<>>

\* retrievers.py:148-149  the content-hash identity
HashDocId(doc) == <<"h", "a", "s", "h", ":">> \o Sha256Hex(doc.page_content.prefix)

\* retrievers.py:140-149
StableDocId(doc) ==
    LET source == MetaGet(doc.metadata, "source", <<>>)
    IN  IF source # <<>>
        THEN source \o <<":">> \o StartStr(doc)
        ELSE HashDocId(doc)

K0 == 60

\* common denominator of the weights 1 / (K0 + rank), rank in 1..n
RECURSIVE Denominator(_)
Denominator(n) == IF n <= 0 THEN 1 ELSE (K0 + n) * Denominator(n - 1)

\* retrievers.py:165  1.0 / (K0 + rank) as a multiple of 1 / Denominator(n)
Weight(rank, n) == Denominator(n) \div (K0 + rank)

\* retrievers.py:164-167  one (rank, doc) of the inner loop; acc is the
\* pair of dicts scores and best_doc in insertion order, a sequence of
\* [id, score, doc]
VisitOverwrite(acc, doc, rank, n) ==
    LET did == StableDocId(doc)
        at == {i \in 1..Len(acc) : acc[i].id = did}
    IN  IF at = {}
        THEN Append(acc, [id |-> did, score |-> Weight(rank, n), doc |-> doc])
        ELSE [i \in 1..Len(acc) |->
                IF i \in at
                THEN [acc[i] EXCEPT !.score = Weight(rank, n)]
                ELSE acc[i]]
VisitLastDoc(acc, doc, rank, n) ==
    LET did == StableDocId(doc)
        at == {i \in 1..Len(acc) : acc[i].id = did}
    IN  IF at = {}
        THEN Append(acc, [id |-> did, score |-> Weight(rank, n), doc |-> doc])
        ELSE [i \in 1..Len(acc) |->
                IF i \in at
                THEN [acc[i] EXCEPT !.score = @ + Weight(rank, n), !.doc = doc]
                ELSE acc[i]]
Visit(acc, doc, rank, n) ==
    LET did == StableDocId(doc)
        at == {i \in 1..Len(acc) : acc[i].id = did}
    IN  IF at = {}
        THEN Append(acc, [id |-> did, score |-> Weight(rank, n), doc |-> doc])
        ELSE [i \in 1..Len(acc) |->
                IF i \in at
                THEN [acc[i] EXCEPT !.score = @ + Weight(rank, n)]
                ELSE acc[i]]

\* retrievers.py:163-167  the inner loop over enumerate(docs[:k_per_list],
\* start=1), from rank on
RECURSIVE VisitList(_, _, _, _)
VisitList(acc, docs, rank, n) ==
    IF rank > Len(docs)
    THEN acc
    ELSE VisitList(Visit(acc, docs[rank], rank, n), docs, rank + 1, n)

\* retrievers.py:162-167  the outer loop over results_by_query, from list
\* i on
RECURSIVE Accumulate(_, _, _, _)
Accumulate(acc, lists, i, k_per_list) ==
    IF i > Len(lists)
    THEN acc
    ELSE Accumulate(VisitList(acc, PySlice(lists[i], k_per_list), 1, k_per_list),
                    lists, i + 1, k_per_list)

\* retrievers.py:169  sorted(..., reverse=True) is stable: the next id is
\* the first one, in insertion order, that has the highest score
FirstBestMut(acc) ==
    CHOOSE i \in 1..Len(acc) :
        /\ \A j \in 1..Len(acc) : acc[j].score <= acc[i].score
        /\ \A j \in (i + 1)..Len(acc) : acc[j].score < acc[i].score
FirstBest(acc) ==
    CHOOSE i \in 1..Len(acc) :
        /\ \A j \in 1..Len(acc) : acc[j].score <= acc[i].score
        /\ \A j \in 1..(i - 1) : acc[j].score < acc[i].score

Remove(seq, i) == SubSeq(seq, 1, i - 1) \o SubSeq(seq, i + 1, Len(seq))

\* retrievers.py:169  ranked_ids, with their entries
RECURSIVE Ranked(_)
Ranked(acc) ==
    IF acc = <<>>
    THEN <<>>
    ELSE LET i == FirstBest(acc)
         IN  <<acc[i]>> \o Ranked(Remove(acc, i))

\* retrievers.py:170  [best_doc[d] for d in ranked_ids[:k]]
TopDocsMut(ranked, k) == [i \in 1..Len(ranked) |-> ranked[i].doc]
TopDocs(ranked, k) ==
    LET top == PySlice(ranked, k)
    IN  [i \in 1..Len(top) |-> top[i].doc]

\* retrievers.py:152-170
rrf_merge(lists, k, k_per_list) ==
    TopDocs(Ranked(Accumulate(<<>>, lists, 1, k_per_list)), k)

\* retrievers.py:130  characters removed by line.strip() and by
\* line.strip(" -...\t"); the three characters between the hyphen and the
\* tab in the source are written here by their code points
Whitespace == {" ", "\t", "\n", "\r"}
BulletChars == {" ", "-", "U+00E2", "U+20AC", "U+00A2", "\t"}

RECURSIVE LStrip(_, _)
LStrip(line, chars) ==
    IF line # <<>> /\ Head(line) \in chars THEN LStrip(Tail(line), chars) ELSE line

RECURSIVE RStrip(_, _)
RStrip(line, chars) ==
    IF line # <<>> /\ line[Len(line)] \in chars
    THEN RStrip(SubSeq(line, 1, Len(line) - 1), chars)
    ELSE line

\* str.strip(chars)
Strip(line, chars) == RStrip(LStrip(line, chars), chars)

\* retrievers.py:130  the list comprehension over response.splitlines()
RECURSIVE ParseLines(_)
ParseLines(lines) ==
    IF lines = <<>>
    THEN <<>>
    ELSE IF Strip(Head(lines), Whitespace) # <<>>
         THEN <<Strip(Head(lines), BulletChars)>> \o ParseLines(Tail(lines))
         ELSE ParseLines(Tail(lines))

\* retrievers.py:131-137  the loop that keeps the first of equal strings
RECURSIVE Unique(_, _)
Unique(seen, rest) ==
    IF rest = <<>>
    THEN seen
    ELSE IF \E i \in 1..Len(seen) : seen[i] = Head(rest)
         THEN Unique(seen, Tail(rest))
         ELSE Unique(Append(seen, Head(rest)), Tail(rest))

Outcome(exc, val) == [exc |-> exc, val |-> val]

\* the model completion of retrievers.py:129 either raises or returns text,
\* given as its lines
CompletionRaises == Outcome("LLMError", <<>>)
CompletionReturns(lines) == Outcome("none", lines)

\* retrievers.py:114-137; an exception of chain.invoke is not caught
generate_query_variants(query, reply) ==
    IF reply.exc # "none"
    THEN Outcome(reply.exc, <<>>)
    ELSE Outcome("none", Unique(<<>>, <<query>> \o ParseLines(reply.val)))

(* Inputs of retrieve_rag_fusion explored by the model *)

Meta(keys, source, start) ==
    [key \in keys |-> IF key = "source" THEN source ELSE start]

Document(keys, source, start, prefix, rest) ==
    [metadata |-> Meta(keys, source, start),
     page_content |-> [prefix |-> prefix, rest |-> rest]]

\* the indexed passages: two versions of one chunk (same source and
\* start_index), a chunk of that source stored without start_index, and a
\* passage with no metadata
FusionDocs ==
    {Document({"source", "start_index"}, <<"a">>, 0, "x", ""),
     Document({"source", "start_index"}, <<"a">>, 0, "y", ""),
     Document({"source"}, <<"a">>, 0, "x", ""),
     Document({}, <<>>, 0, "z", "")}

\* what a similarity search for at most n documents can return: distinct
\* index entries, best first
ResultLists(n) ==
    {l \in UNION {[1..m -> FusionDocs] : m \in 0..n} :
        \A i, j \in 1..Len(l) : l[i] = l[j] => i = j}

Query == <<"q">>

FusionLines == {<<"q">>, <<"-", " ", "b">>}

Texts(lines, n) == UNION {[1..m -> lines] : m \in 0..n}

Pending == Outcome("pending", <<>>)

LimiterIdle ==
    /\ max_ops = 0
    /\ events = <<>>
    /\ clock = 0
    /\ log = <<>>
    /\ pc = [th \in Threads |-> "idle"]
    /\ now = [th \in Threads |-> 0]

RegimeIdle ==
    /\ regime_in = NoRegimeIn
    /\ regime_out = NoRegimeOut

\* retrievers.py:173-180  a call of retrieve_rag_fusion
InitFusion ==
    /\ rag_pc = "load"
    /\ rag_in \in [query : {Query}, k : 1..MaxK, k_per_query : 1..MaxPerQuery]
    /\ llm_reply = Pending
    /\ variants = <<>>
    /\ searches = <<>>
    /\ results_by_query = <<>>
    /\ rag_out = Pending
    /\ LimiterIdle
    /\ RegimeIdle
    /\ ctl_log = <<>>
    /\ FnIdle
    /\ AppIdle

RagRaise(exc) ==
    /\ rag_out' = Outcome(exc, <<>>)
    /\ rag_pc' = "done"

\* retrievers.py:188-189  load_vectorstore and as_retriever; loading an
\* index that cannot be read raises
LoadVectorstore(ok) ==
    /\ rag_pc = "load"
    /\ IF ok
       THEN rag_pc' = "generate" /\ rag_out' = rag_out
       ELSE RagRaise("IndexLoadError")
    /\ UNCHANGED <<rag_in, llm_reply, variants, searches, results_by_query,
                   limiter_vars, regime_vars, ctl_log, fn_vars, app_vars>>

\* retrievers.py:191-193  variants = generate_query_variants(...)
GenerateVariants(reply) ==
    /\ rag_pc = "generate"
    /\ llm_reply' = reply
    /\ LET r == generate_query_variants(rag_in.query, reply)
       IN  IF r.exc = "none"
           THEN /\ variants' = r.val
                /\ rag_pc' = "search"
                /\ rag_out' = rag_out
           ELSE /\ variants' = variants
                /\ RagRaise(r.exc)
    /\ UNCHANGED <<rag_in, searches, results_by_query,
                   limiter_vars, regime_vars, ctl_log, fn_vars, app_vars>>

\* retrievers.py:194  the comprehension takes the variants in list order
NextVariantMut(vs, done) == vs[Len(vs) - Len(done)]
NextVariant(vs, done) == vs[Len(done) + 1]

\* retrievers.py:194-196  the comprehension is over before the merge
AllSearched(vs, done) == Len(done) = Len(vs)

SearchRaises == Outcome("SearchError", <<>>)
SearchReturns(docs) == Outcome("none", docs)

\* retrievers.py:194  one retr.invoke(v) of the list comprehension, for
\* the next variant; an exception of the retriever is not caught
Search(reply) ==
    /\ rag_pc = "search"
    /\ ~AllSearched(variants, searches)
    /\ searches' = Append(searches, [variant |-> NextVariant(variants, searches),
                                     exc |-> reply.exc, val |-> reply.val])
    /\ IF reply.exc = "none"
       THEN /\ results_by_query' = Append(results_by_query, reply.val)
            /\ UNCHANGED <<rag_pc, rag_out>>
       ELSE /\ results_by_query' = results_by_query
            /\ RagRaise(reply.exc)
    /\ UNCHANGED <<rag_in, llm_reply, variants,
                   limiter_vars, regime_vars, ctl_log, fn_vars, app_vars>>

\* retrievers.py:196  return _rrf_merge(results_by_query, k, k_per_query)
Merge ==
    /\ rag_pc = "search"
    /\ AllSearched(variants, searches)
    /\ rag_out' = Outcome("none", rrf_merge(results_by_query, rag_in.k, rag_in.k_per_query))
    /\ rag_pc' = "done"
    /\ UNCHANGED <<rag_in, llm_reply, variants, searches, results_by_query,
                   limiter_vars, regime_vars, ctl_log, fn_vars, app_vars>>

NextFusion ==
    \/ \E ok \in BOOLEAN : LoadVectorstore(ok)
    \/ \E reply \in {CompletionRaises}
                    \cup {CompletionReturns(t) : t \in Texts(FusionLines, MaxLines)} :
          GenerateVariants(reply)
    \/ \E reply \in {SearchRaises}
                    \cup {SearchReturns(l) : l \in ResultLists(rag_in.k_per_query)} :
          Search(reply)
    \/ Merge

SpecFusion == InitFusion /\ [][NextFusion]_vars

----
(* Index builders (app/core/services/rag_store.py): the Documents that a   *)
(* builder writes to the index, one per chunk of the splitter.             *)

\* rag_store.py:126-135, 199-208, 264-273  the metadata of chunk i
ChunkMeta(source, full_path, type, i, total) ==
    [source |-> source, full_path |-> full_path, type |-> type,
     chunk |-> i, total_chunks |-> total]

\* the Documents of one text: chunk numbers start at 0
ChunkDocs(source, full_path, type, chunks) ==
    [i \in 1..Len(chunks) |->
        [metadata |-> ChunkMeta(source, full_path, type, i - 1, Len(chunks)),
         page_content |-> chunks[i]]]

\* rag_store.py:120-124  "user_document" for files under
\* knowledge_base/user
FileType(dir) ==
    IF dir = "knowledge_base/user" THEN "user_document" ELSE "macro_education"

\* rag_store.py:108-141  the loop over file_paths; a file without text is
\* skipped
RECURSIVE FileDocs(_)
FileDocs(files) ==
    IF files = <<>>
    THEN <<>>
    ELSE LET f == Head(files)
         IN  ChunkDocs(f.name, <<f.dir, f.name>>, FileType(f.dir), f.chunks)
                \o FileDocs(Tail(files))

\* rag_store.py:87-156
build_faiss_from_documents(file_paths) ==
    IF FileDocs(file_paths) = <<>>
    THEN Outcome("ValueError", <<>>)
    ELSE Outcome("none", FileDocs(file_paths))

\* rag_store.py:159-218  the chunks of a page, source = the url's domain
add_url_content_to_index(url, chunks) ==
    Outcome("none", ChunkDocs(url.domain, <<url.domain, url.path>>, "web_content", chunks))

\* rag_store.py:240-276  the loop over uploaded_files
RECURSIVE UploadDocs(_)
UploadDocs(files) ==
    IF files = <<>>
    THEN <<>>
    ELSE LET f == Head(files)
         IN  ChunkDocs(f.name, <<"uploaded:", f.name>>, "user_document", f.chunks)
                \o UploadDocs(Tail(files))

\* rag_store.py:221-291
add_uploaded_files_to_index(uploaded_files) ==
    Outcome("none", UploadDocs(uploaded_files))

(* Inputs of the index builders explored by the model *)

Contents == {[prefix |-> "x", rest |-> ""], [prefix |-> "y", rest |-> ""]}

\* the chunks of one text: different pieces of it, none for an empty text
ChunkLists ==
    {c \in UNION {[1..m -> Contents] : m \in 0..MaxChunks} :
        \A i, j \in 1..Len(c) : c[i] = c[j] => i = j}

Files ==
    [name : {<<"a">>, <<"b">>}, dir : {"knowledge_base/user", "knowledge_base/macro"},
     chunks : ChunkLists]

Uploads == [name : {<<"a">>, <<"b">>}, chunks : ChunkLists]

Urls == [domain : {<<"a">>}, path : {"/p", "/q"}]

FileLists(files) == UNION {[1..m -> files] : m \in 1..MaxFiles}

----
(* pct_change and bp_change (app/core/analyzers/regime.py).  A float is    *)
(* modelled by the exact fraction [num, den], den > 0, so the rounding of  *)
(* the floating-point operations is left out; dividing by zero raises.     *)

Rat(num, den) == [num |-> num, den |-> den]

\* x - y
RatSub(x, y) == Rat(x.num * y.den - y.num * x.den, x.den * y.den)

\* x / y for y # 0
RatDiv(x, y) ==
    IF y.num > 0
    THEN Rat(x.num * y.den, x.den * y.num)
    ELSE Rat(-(x.num * y.den), -(x.den * y.num))

\* x * 100.0
RatTimes100(x) == Rat(x.num * 100, x.den)

\* regime.py:40-60
pct_changeMut(a, b) ==
    IF a = None \/ b = None
    THEN Outcome("none", None)
    ELSE IF Val(b).num = 0
         THEN Outcome("ZeroDivisionError", None)
         ELSE Outcome("none", Some(RatTimes100(RatDiv(RatSub(Val(a), Val(b)), Val(b)))))
pct_change(a, b) ==
    IF a = None \/ b = None
    THEN Outcome("none", None)
    ELSE IF Val(b).num = 0
         THEN Outcome("none", None)
         ELSE Outcome("none", Some(RatTimes100(RatDiv(RatSub(Val(a), Val(b)), Val(b)))))

\* regime.py:63-81
bp_change(a, b) ==
    IF a = None \/ b = None
    THEN Outcome("none", None)
    ELSE Outcome("none", Some(RatTimes100(RatSub(Val(a), Val(b)))))

\* truth value of a float | None: None and 0.0 are false
Truthy(x) == Present(x) /\ Val(x).num # 0

\* market_data.py:169-211  what _get_yield_data returns: None when no key
\* is set or the series is short, a dict of None after an error, else the
\* two levels
YieldData(latest, past) == Some([latest_yield |-> latest, past_yield |-> past])

\* market_data.py:250-261, 263-284  the 10-year yield entries of the
\* snapshot
get_market_snapshot(yield_data) ==
    LET taken == Present(yield_data) /\ Truthy(Val(yield_data).latest_yield)
        ust10y_latest == IF taken THEN Val(yield_data).latest_yield ELSE None
        ust10y_then == IF taken THEN Val(yield_data).past_yield ELSE None
    IN  Outcome("none",
                [ust10y |-> ust10y_latest,
                 previous_ust10y |-> ust10y_then,
                 ust10y_bp |-> bp_change(ust10y_latest, ust10y_then).val])

(* Calls of the pure functions explored by the model: call is the function *)
(* and its arguments, ret what it returns or raises.                       *)

Numerators == {-5, 0, 100, 110, 197}
Denominators == {1, 2}
Floats == {None} \cup {Some(Rat(n, d)) : n \in Numerators, d \in Denominators}

YieldResults ==
    {None, YieldData(None, None)}
    \cup {YieldData(a, b) : a \in Floats \ {None}, b \in Floats \ {None}}

\* documents with and without each metadata field, of different content
\* within and beyond the first 256 characters
FnDocs ==
    {Document(keys, <<"a">>, 0, prefix, rest) :
        keys \in SUBSET {"source", "start_index"},
        prefix \in {"x", "y"}, rest \in {"", "r"}}

ReplyLines == {<<"-", " ", "q">>, <<"-", " ", "b">>, <<"b">>, <<"-">>, <<" ">>}

FnCall(fn, args) == [fn |-> fn, args |-> args]

InitFunctions ==
    /\ \/ call \in {FnCall("pct_change", <<a, b>>) : a \in Floats, b \in Floats}
       \/ call \in {FnCall("bp_change", <<a, b>>) : a \in Floats, b \in Floats}
       \/ call \in {FnCall("_stable_doc_id", <<d, e>>) : d \in FnDocs, e \in FnDocs}
       \/ call \in {FnCall("get_market_snapshot", <<y>>) : y \in YieldResults}
       \/ call \in {FnCall("build_faiss_from_documents", <<files>>) : files \in FileLists(Files)}
       \/ call \in {FnCall("add_url_content_to_index", <<url, chunks>>) :
                        url \in Urls, chunks \in ChunkLists}
       \/ call \in {FnCall("add_uploaded_files_to_index", <<files>>) :
                        files \in FileLists(Uploads)}
       \/ call \in {FnCall("generate_query_variants", <<Query, reply>>) :
                        reply \in {CompletionRaises}
                            \cup {CompletionReturns(t) : t \in Texts(ReplyLines, MaxLines)}}
    /\ ret = Pending
    /\ LimiterIdle
    /\ RegimeIdle
    /\ ctl_log = <<>>
    /\ RagIdle
    /\ AppIdle

\* regime.py:40-60  a call of pct_change returns
PctChange ==
    /\ call.fn = "pct_change"
    /\ ret = Pending
    /\ ret' = pct_change(call.args[1], call.args[2])
    /\ UNCHANGED <<call, limiter_vars, regime_vars, ctl_log, rag_vars, app_vars>>

\* regime.py:63-81  a call of bp_change returns
BpChange ==
    /\ call.fn = "bp_change"
    /\ ret = Pending
    /\ ret' = bp_change(call.args[1], call.args[2])
    /\ UNCHANGED <<call, limiter_vars, regime_vars, ctl_log, rag_vars, app_vars>>

\* retrievers.py:140-149  _stable_doc_id of each of two documents
StableDocIds ==
    /\ call.fn = "_stable_doc_id"
    /\ ret = Pending
    /\ ret' = Outcome("none", <<StableDocId(call.args[1]), StableDocId(call.args[2])>>)
    /\ UNCHANGED <<call, limiter_vars, regime_vars, ctl_log, rag_vars, app_vars>>

\* retrievers.py:114-137  a call of generate_query_variants returns or
\* raises
GenerateQueryVariants ==
    /\ call.fn = "generate_query_variants"
    /\ ret = Pending
    /\ ret' = generate_query_variants(call.args[1], call.args[2])
    /\ UNCHANGED <<call, limiter_vars, regime_vars, ctl_log, rag_vars, app_vars>>

\* rag_store.py:87-156  a call of build_faiss_from_documents returns
BuildFaissFromDocuments ==
    /\ call.fn = "build_faiss_from_documents"
    /\ ret = Pending
    /\ ret' = build_faiss_from_documents(call.args[1])
    /\ UNCHANGED <<call, limiter_vars, regime_vars, ctl_log, rag_vars, app_vars>>

\* rag_store.py:159-218  a call of add_url_content_to_index returns
AddUrlContentToIndex ==
    /\ call.fn = "add_url_content_to_index"
    /\ ret = Pending
    /\ ret' = add_url_content_to_index(call.args[1], call.args[2])
    /\ UNCHANGED <<call, limiter_vars, regime_vars, ctl_log, rag_vars, app_vars>>

\* rag_store.py:221-291  a call of add_uploaded_files_to_index returns
AddUploadedFilesToIndex ==
    /\ call.fn = "add_uploaded_files_to_index"
    /\ ret = Pending
    /\ ret' = add_uploaded_files_to_index(call.args[1])
    /\ UNCHANGED <<call, limiter_vars, regime_vars, ctl_log, rag_vars, app_vars>>

\* market_data.py:214-292  a call of get_market_snapshot returns
GetMarketSnapshot ==
    /\ call.fn = "get_market_snapshot"
    /\ ret = Pending
    /\ ret' = get_market_snapshot(call.args[1])
    /\ UNCHANGED <<call, limiter_vars, regime_vars, ctl_log, rag_vars, app_vars>>

NextFunctions ==
    \/ GetMarketSnapshot
    \/ BuildFaissFromDocuments
    \/ AddUrlContentToIndex
    \/ AddUploadedFilesToIndex
    \/ PctChange
    \/ BpChange
    \/ StableDocIds
    \/ GenerateQueryVariants

SpecFunctions == InitFunctions /\ [][NextFunctions]_vars

----
(* Conversation histories (app/core/services/llm_openai.py, controller.py, *)
(* ui/state.py).  session_store is the module-level dict of the process;   *)
(* a controller is known by its number in controllers, which holds its     *)
(* session_id.  call names the last operation and the controller it was    *)
(* called on.                                                              *)

\* llm_openai.py:37-53  get_session_history: the store after the lookup,
\* which creates an empty history for an unknown id
WithSession(store, id) ==
    [s \in DOMAIN store \cup {id} |-> IF s \in DOMAIN store THEN store[s] ELSE <<>>]

\* llm_openai.py:704-707  get_session_history_messages
Messages(store, id) == WithSession(store, id)[id]

\* controller.py:97-106  what get_history of controller c returns
History(c) == Messages(session_store, controllers[c])

Message(role, text) == [role |-> role, text |-> text]

\* controller.py:64-65, ui/state.py:99  init_controller passes no
\* session_id, so the controller takes the default one
DefaultSessionId == "default_session"

\* ui/state.py:84-103  init_controller
InitControllerCall ==
    /\ Len(controllers) < MaxControllers
    /\ controllers' = Append(controllers, DefaultSessionId)
    /\ call' = FnCall("init_controller", <<Len(controllers) + 1>>)
    /\ UNCHANGED <<session_store, llm_calls, ret, limiter_vars, regime_vars,
                   ctl_log, rag_vars>>

\* the history of a session after a message is added to it
Added(store, id, msg) ==
    [WithSession(store, id) EXCEPT ![id] = Append(@, msg)]

\* the store after the history of a session is cleared
Cleared(store, id) ==
    [WithSession(store, id) EXCEPT ![id] = <<>>]

\* controller.py:108-119  append_user
AppendUser(c, text) ==
    /\ c \in 1..Len(controllers)
    /\ Len(History(c)) < MaxMessages
    /\ session_store' = Added(session_store, controllers[c], Message("human", text))
    /\ call' = FnCall("append_user", <<c>>)
    /\ UNCHANGED <<controllers, llm_calls, ret, limiter_vars, regime_vars,
                   ctl_log, rag_vars>>

\* controller.py:121-132  append_assistant
AppendAssistant(c, text) ==
    /\ c \in 1..Len(controllers)
    /\ Len(History(c)) < MaxMessages
    /\ session_store' = Added(session_store, controllers[c], Message("ai", text))
    /\ call' = FnCall("append_assistant", <<c>>)
    /\ UNCHANGED <<controllers, llm_calls, ret, limiter_vars, regime_vars,
                   ctl_log, rag_vars>>

\* controller.py:134-140  clear_history
ClearHistory(c) ==
    /\ c \in 1..Len(controllers)
    /\ session_store' = Cleared(session_store, controllers[c])
    /\ call' = FnCall("clear_history", <<c>>)
    /\ UNCHANGED <<controllers, llm_calls, ret, limiter_vars, regime_vars,
                   ctl_log, rag_vars>>

\* controller.py:197-200  reset: clear_history and a fresh SessionState
Reset(c) ==
    /\ c \in 1..Len(controllers)
    /\ session_store' = Cleared(session_store, controllers[c])
    /\ call' = FnCall("reset", <<c>>)
    /\ UNCHANGED <<controllers, llm_calls, ret, limiter_vars, regime_vars,
                   ctl_log, rag_vars>>

\* controller.py:97-106  get_history; the lookup may create the entry
GetHistory(c) ==
    /\ c \in 1..Len(controllers)
    /\ session_store' = WithSession(session_store, controllers[c])
    /\ call' = FnCall("get_history", <<c>>)
    /\ UNCHANGED <<controllers, llm_calls, ret, limiter_vars, regime_vars,
                   ctl_log, rag_vars>>

NextSessions ==
    \/ InitControllerCall
    \/ \E c \in 1..MaxControllers, text \in {"hello", "bye"} :
          \/ AppendUser(c, text)
          \/ AppendAssistant(c, text)
          \/ ClearHistory(c)
          \/ Reset(c)
          \/ GetHistory(c)

\* llm_openai.py:34  the process starts with an empty store
InitSessions ==
    /\ AppIdle
    /\ call = FnCall("none", <<>>)
    /\ ret = Pending
    /\ LimiterIdle
    /\ RegimeIdle
    /\ ctl_log = <<>>
    /\ RagIdle

SpecSessions == InitSessions /\ [][NextSessions]_vars

----
(* Claims about the single-threaded RateLimiter (specification Spec) *)

Calls == 1..Len(log)

\* admitted calls whose timestamp lies in the closed interval [lo, hi]
AdmittedIn(lo, hi) ==
    {i \in Calls : log[i].ok /\ log[i].t >= lo /\ log[i].t <= hi}

\* C1: for calls made one at a time at non-decreasing times and any
\* max_ops >= 0, every closed 60-second window holds at most max_ops calls
\* that returned true (a window holding an admitted call is covered by the
\* window that starts at its first admitted call).
C1_WindowBudget ==
    max_ops >= 0 =>
        \A i \in Calls :
            log[i].ok =>
                Cardinality(AdmittedIn(log[i].t, log[i].t + WINDOW)) <= max_ops

\* a full window, a call rejected inside it and an admission after it
C1_Witness ==
    /\ max_ops = 2
    /\ \E i, j, k \in Calls :
          /\ i < j /\ j < k
          /\ Cardinality(AdmittedIn(log[i].t, log[i].t + WINDOW)) = max_ops
          /\ ~log[j].ok /\ log[j].t <= log[i].t + WINDOW
          /\ log[k].ok /\ log[k].t > log[i].t + WINDOW

\* C3: one allow() call at time n removes exactly the timestamps t with
\* n - t > 60 (one exactly 60 seconds old stays); with fewer than max_ops
\* left it appends n and returns true, otherwise it returns false and the
\* pruned sequence is left as it is.
C3_AllowStep ==
    [][Len(log') = Len(log) + 1 =>
          LET n == log'[Len(log')].t
              ok == log'[Len(log')].ok
              kept == SelectSeq(events, LAMBDA t : n - t <= WINDOW)
          IN  IF Len(kept) < max_ops
              THEN ok /\ events' = Append(kept, n)
              ELSE ~ok /\ events' = kept]_vars

\* a call rejected because a timestamp exactly 60 seconds old was kept,
\* then a call one second later that pruned two timestamps and was admitted
C3_Witness ==
    /\ max_ops = 2
    /\ \E i, j, k \in Calls :
          /\ i + 1 < j /\ j < k
          /\ log[i].ok /\ log[i + 1].ok
          /\ ~log[j].ok /\ log[j].t - log[i].t = WINDOW
          /\ log[k].ok /\ log[k].t - log[i + 1].t > WINDOW
    /\ Len(events) = 1

\* C4: on a fresh limiter with max_ops = N >= 0, of calls made within a
\* span shorter than 60 seconds exactly the first N return true and every
\* later one returns false.
C4_BurstAdmitsFirstN ==
    (max_ops >= 0 /\ log # <<>> /\ log[Len(log)].t - log[1].t < WINDOW) =>
        \A i \in Calls : log[i].ok <=> (i <= max_ops)

\* N = 3, four calls within one second: [True, True, True, False]
C4_Witness ==
    /\ max_ops = 3
    /\ Len(log) >= 4
    /\ log[4].t - log[1].t <= 1
    /\ log[1].ok /\ log[2].ok /\ log[3].ok /\ ~log[4].ok

\* C5: with max_ops >= 1, a call made more than 60 seconds after the most
\* recent admitted call returns true, however many rejected calls were made
\* in between.
C5_Recovers ==
    max_ops >= 1 =>
        \A j \in Calls :
            (\A i \in 1..(j - 1) : log[i].ok => log[j].t - log[i].t > WINDOW)
                => log[j].ok

\* admitted, rejected, then admitted more than 60 seconds after the last
\* admission but at most 60 seconds after the rejection
C5_Witness ==
    \E i, j, k \in Calls :
        /\ i < j /\ j < k
        /\ log[i].ok /\ ~log[j].ok /\ log[k].ok
        /\ \A h \in 1..(k - 1) : log[h].ok => log[k].t - log[h].t > WINDOW
        /\ log[k].t - log[j].t <= WINDOW

\* C11: constructing a RateLimiter with a negative max_ops_per_min raises
\* and halts, so no instance with a negative limit ever serves an allow()
\* call.
C11_NegativeLimitNeverServes ==
    max_ops < 0 => log = <<>>

----
(* Claims about classify_regime (specification SpecRegime) *)

Called == regime_out # NoCall
CompleteCall == Called /\ regime_in.cfg \in CompleteConfigs
RiskOnCall == CompleteCall /\ regime_out.regime = Labels["risk_on"]

\* C6: classify_regime returns the risk_on label exactly when spx_pct and
\* vix_pct are both present, spx_pct >= the risk_on minimum and vix_pct <=
\* the risk_on maximum (inclusive); in every other case, whatever dxy_pct
\* and ust10y_bp are, it returns risk_off with usd_context and yields "n/a".
C6_RiskOnIff ==
    CompleteCall =>
        LET a == regime_in
            cut == a.cfg["thresholds"]["risk_on"]
            confirmed == /\ Present(a.spx) /\ Present(a.vix)
                         /\ Val(a.spx) >= cut["spx_pct_min"]
                         /\ Val(a.vix) <= cut["vix_pct_max"]
        IN  /\ regime_out.exc = "none"
            /\ IF confirmed
               THEN regime_out.regime = Labels["risk_on"]
               ELSE /\ regime_out.regime = Labels["risk_off"]
                    /\ regime_out.usd_context = "n/a"
                    /\ regime_out.yields = "n/a"

\* risk-on returned with both deltas exactly on their thresholds
C6_Witness ==
    /\ RiskOnCall
    /\ Val(regime_in.spx) = regime_in.cfg["thresholds"]["risk_on"]["spx_pct_min"]
    /\ Val(regime_in.vix) = regime_in.cfg["thresholds"]["risk_on"]["vix_pct_max"]

\* C7: in the risk-on branch usd_context is the us-exceptionalism label
\* whenever dxy_pct is present, spx_pct >= the tie-breaker's spx_min and
\* dxy_pct >= its dxy_min, also when the soft-dollar condition holds;
\* otherwise usd_soft when dxy_pct is present and <= the usd_soft maximum,
\* and usd_firm in the remaining cases, absent dxy_pct included.
C7_UsdContext ==
    RiskOnCall =>
        LET a == regime_in
            tb == a.cfg["tie_breakers"]["us_exceptionalism"]
            soft_max == a.cfg["thresholds"]["usd_soft"]["dxy_pct_max"]
        IN  regime_out.usd_context =
                IF /\ Present(a.dxy)
                   /\ Val(a.spx) >= tb["spx_min"]
                   /\ Val(a.dxy) >= tb["dxy_min"]
                THEN Labels["usd_usx"]
                ELSE IF Present(a.dxy) /\ Val(a.dxy) <= soft_max
                THEN Labels["usd_soft"]
                ELSE Labels["usd_firm"]

\* the tie-breaker overrides a usd_context that had been set to usd_soft
C7_Witness ==
    /\ RiskOnCall
    /\ Present(regime_in.dxy)
    /\ Val(regime_in.dxy) <= regime_in.cfg["thresholds"]["usd_soft"]["dxy_pct_max"]
    /\ regime_out.usd_context = Labels["usd_usx"]

\* C8: in the risk-on branch yields is yields_rising exactly when ust10y_bp
\* is present and >= the yields_rising minimum (inclusive), and yields_mixed
\* otherwise, absent ust10y_bp included; dxy_pct and the tie-breaker play
\* no part.
C8_Yields ==
    RiskOnCall =>
        LET a == regime_in
            rising_min == a.cfg["thresholds"]["yields_rising"]["ust10y_bp_min"]
        IN  regime_out.yields =
                IF Present(a.ust) /\ Val(a.ust) >= rising_min
                THEN Labels["yields_rising"]
                ELSE Labels["yields_mixed"]

\* yields_rising on the threshold itself, in a call where the tie-breaker
\* fired
C8_Witness ==
    /\ RiskOnCall
    /\ Present(regime_in.ust)
    /\ Val(regime_in.ust) = regime_in.cfg["thresholds"]["yields_rising"]["ust10y_bp_min"]
    /\ regime_out.yields = Labels["yields_rising"]
    /\ regime_out.usd_context = Labels["usd_usx"]

\* C9: with a config that lacks any required key classify_regime raises a
\* configuration error for every combination of present and absent deltas;
\* it never returns a result from an incomplete config.
C9_IncompleteConfigRaises ==
    (Called /\ regime_in.cfg \in IncompleteConfigs) => regime_out.exc = "KeyError"

\* the example call: spx_pct = 1.2, vix_pct = -3.0, dxy_pct = 0.8,
\* ust10y_bp = 12.0 with the thresholds 0.5, 0, -0.3 and 10
ExampleCall ==
    /\ CompleteCall
    /\ regime_in.spx = Some(12) /\ regime_in.vix = Some(-30)
    /\ regime_in.dxy = Some(8) /\ regime_in.ust = Some(120)
    /\ regime_in.cfg["thresholds"] = Config(5, 5, 5)["thresholds"]

\* C23: the example call returns regime = risk_on, usd_context = usd_firm
\* and yields = yields_rising, whatever the tie_breakers of the config.
C23_ExampleAsStated ==
    ExampleCall =>
        /\ regime_out.exc = "none"
        /\ regime_out.regime = Labels["risk_on"]
        /\ regime_out.usd_context = Labels["usd_firm"]
        /\ regime_out.yields = Labels["yields_rising"]

\* C23 as amended: the example call returns regime = risk_on and yields =
\* yields_rising; usd_context is usd_firm when the us_exceptionalism
\* tie-breaker has spx_min > 1.2 or dxy_min > 0.8, and the
\* us-exceptionalism label when spx_min <= 1.2 and dxy_min <= 0.8.
C23_Example ==
    ExampleCall =>
        LET tb == regime_in.cfg["tie_breakers"]["us_exceptionalism"]
        IN  /\ regime_out.exc = "none"
            /\ regime_out.regime = Labels["risk_on"]
            /\ regime_out.yields = Labels["yields_rising"]
            /\ regime_out.usd_context =
                  IF tb["spx_min"] > 12 \/ tb["dxy_min"] > 8
                  THEN Labels["usd_firm"]
                  ELSE Labels["usd_usx"]

\* the example call with a tie-breaker the dollar's move does not reach
C23_Witness ==
    /\ ExampleCall
    /\ regime_in.cfg["tie_breakers"]["us_exceptionalism"]["dxy_min"] = 9
    /\ regime_out.usd_context = Labels["usd_firm"]

----
(* Claims about concurrent callers (specification SpecThreads) *)

\* C2: when several threads call allow() on one RateLimiter, each call's
\* prune-check-append sequence is atomic: in no interleaving are more than
\* max_ops calls admitted within one closed 60-second window.
C2_AtomicAdmission ==
    max_ops >= 0 =>
        \A i \in Calls :
            (log[i].ok /\ log[i].th \in Threads) =>
                Cardinality(AdmittedIn(log[i].t, log[i].t + WINDOW)) <= max_ops

\* C24: in every reachable state of a RateLimiter the recorded timestamps
\* are in non-decreasing, oldest-first order, for sequential callers and
\* for every interleaving of concurrent callers.
C24_OldestFirst ==
    \A i, j \in 1..Len(events) : i < j => events[i] <= events[j]

----
(* Claims about the controller (specification SpecController) *)

\* C10: a rejection by the rate limiter is never raised as an exception:
\* every controller operation that reaches the LLM client on a rate-limited
\* turn returns normally to its caller.
C10_RejectionNeverRaises ==
    \A i \in 1..Len(ctl_log) :
        (ctl_log[i].reached_llm /\ ctl_log[i].rate_limited)
            => ctl_log[i].outcome = "returned"

----
(* Claims about retrieve_rag_fusion (specification SpecFusion) *)

Fused == rag_pc = "done" /\ rag_out.exc = "none"

\* the entries of a per-variant list that _rrf_merge looks at
Considered(i) == PySlice(results_by_query[i], rag_in.k_per_query)

\* the <<list, rank>> positions at which an identity occurs
Occurrences(did) ==
    {<<i, r>> \in (1..Len(results_by_query)) \X (1..rag_in.k_per_query) :
        r <= Len(Considered(i)) /\ StableDocId(Considered(i)[r]) = did}

AllIds ==
    {StableDocId(Considered(i)[r]) : <<i, r>> \in
        {p \in (1..Len(results_by_query)) \X (1..rag_in.k_per_query) :
            p[2] <= Len(Considered(p[1]))}}

\* sum of 1 / (60 + r) over a set of positions, as a fraction of
\* numerator SumNum and denominator SumDen
RECURSIVE SumDen(_)
SumDen(positions) ==
    IF positions = {}
    THEN 1
    ELSE LET p == CHOOSE p \in positions : TRUE
         IN  SumDen(positions \ {p}) * (60 + p[2])
RECURSIVE SumNum(_)
SumNum(positions) ==
    IF positions = {}
    THEN 0
    ELSE LET p == CHOOSE p \in positions : TRUE
         IN  SumNum(positions \ {p}) * (60 + p[2]) + SumDen(positions \ {p})

\* score of identity a is at least the score of identity b
ScoreGeq(a, b) ==
    SumNum(Occurrences(a)) * SumDen(Occurrences(b))
        >= SumNum(Occurrences(b)) * SumDen(Occurrences(a))

OutIds == [p \in 1..Len(rag_out.val) |-> StableDocId(rag_out.val[p])]

\* C12: the fused result is ordered by accumulated score, descending, the
\* score of an identity being the sum of 1/(60 + r) over its occurrences at
\* rank r within the first k_per_query entries of each list; no identity
\* left out of the result has a higher score than a returned one.
C12_OrderedByScore ==
    Fused =>
        /\ \A p, q \in 1..Len(OutIds) : p < q => ScoreGeq(OutIds[p], OutIds[q])
        /\ \A did \in AllIds :
              (\A p \in 1..Len(OutIds) : OutIds[p] # did)
                  => \A p \in 1..Len(OutIds) : ScoreGeq(OutIds[p], did)

\* a document found at rank 2 by both searches is returned ahead of one
\* found first by a single search, and a third identity is left out
C12_Witness ==
    /\ Fused
    /\ Len(OutIds) = 2
    /\ Occurrences(OutIds[1]) = {<<1, 2>>, <<2, 2>>}
    /\ ~ScoreGeq(OutIds[2], OutIds[1])
    /\ \E did \in AllIds : \A p \in 1..Len(OutIds) : OutIds[p] # did

RECURSIVE SumLen(_)
SumLen(lists) == IF lists = <<>> THEN 0 ELSE Len(Head(lists)) + SumLen(Tail(lists))

\* an identity occurs in more than one per-variant list
Overlap ==
    \E did \in AllIds : \E p, q \in Occurrences(did) : p[1] # q[1]

\* C13: the list returned by retrieve_rag_fusion has length at most k and
\* holds each stable identity at most once; when an identity occurs in more
\* than one per-variant list, the output is strictly shorter than the
\* input lists taken together.
C13_BoundedAndDeduplicated ==
    Fused =>
        /\ Len(rag_out.val) <= rag_in.k
        /\ \A p, q \in 1..Len(OutIds) : OutIds[p] = OutIds[q] => p = q
        /\ Overlap => Len(rag_out.val) < SumLen(results_by_query)

\* two searches found three identities, one of them twice, and k cut the
\* result to two documents
C13_Witness ==
    /\ Fused
    /\ Overlap
    /\ Cardinality(AllIds) = 3
    /\ rag_in.k = 2
    /\ Len(rag_out.val) = 2
    /\ SumLen(results_by_query) = 4

\* the first position, lists in variant order and each list best first, at
\* which an identity occurs
FirstOccurrence(did) ==
    CHOOSE p \in Occurrences(did) :
        \A q \in Occurrences(did) : p[1] < q[1] \/ (p[1] = q[1] /\ p[2] <= q[2])

\* C19: the Document returned for an identity is the one of its first
\* occurrence, the lists scanned in variant order (the original query
\* first) and each list best first; later occurrences never replace it.
C19_FirstOccurrenceWins ==
    Fused =>
        /\ variants[1] = rag_in.query
        /\ \A p \in 1..Len(OutIds) :
              LET first == FirstOccurrence(OutIds[p])
              IN  rag_out.val[p] = results_by_query[first[1]][first[2]]

\* the second search found another version of a chunk the first search had
\* found, and the first version is the one returned
C19_Witness ==
    /\ Fused
    /\ \E p \in 1..Len(OutIds) :
          \E q \in Occurrences(OutIds[p]) :
              /\ q[1] = 2
              /\ results_by_query[q[1]][q[2]] # rag_out.val[p]
              /\ FirstOccurrence(OutIds[p])[1] = 1

\* C15: when the model call of generate_query_variants fails, the variants
\* are exactly [query], retrieve_rag_fusion goes on with that one query
\* and the error does not reach its caller.
C15_GenerationFailureDegrades ==
    llm_reply.exc = "LLMError" =>
        /\ variants = <<rag_in.query>>
        /\ rag_out.exc \in {"pending", "none"}

\* C16: a search that fails for one variant does not abort the searches of
\* the other variants, and retrieve_rag_fusion does not raise: once it is
\* done every variant has been searched and a list is returned, the empty
\* list when no search found anything.
C16_SearchFailureTolerated ==
    (rag_pc = "done" /\ llm_reply.exc # "LLMError") =>
        /\ rag_out.exc = "none"
        /\ Len(searches) = Len(variants)
        /\ (\A i \in 1..Len(results_by_query) : results_by_query[i] = <<>>)
              => rag_out.val = <<>>

\* only the original query is searched: the generation failed or gave no
\* new line
SingleQuery ==
    \/ llm_reply.exc = "LLMError"
    \/ llm_reply.exc = "none" /\ Len(variants) = 1

\* C17: when only one query is searched, retrieve_rag_fusion returns the
\* documents of the plain search for the original query, in their order,
\* cut to k, whatever the list found, documents of equal identity
\* included.
C17_SingleQueryIsPlainSearch ==
    (rag_pc = "done" /\ SingleQuery /\ \A i \in 1..Len(searches) : searches[i].exc = "none") =>
        /\ rag_out.exc = "none"
        /\ Len(results_by_query) = 1
        /\ rag_out.val = PySlice(results_by_query[1], rag_in.k)

\* position p comes before position q: an earlier list, or the same list
\* and a better rank
Before(p, q) == p[1] < q[1] \/ (p[1] = q[1] /\ p[2] < q[2])

Tied(a, b) == ScoreGeq(a, b) /\ ScoreGeq(b, a)

\* C27: documents of equal accumulated score appear in the output in the
\* order in which their identities were first met (lists in variant order,
\* each list best first); when k cuts a group of equal scores, the ones
\* met first are kept.
C27_TiesInFirstSeenOrder ==
    Fused =>
        /\ \A p, q \in 1..Len(OutIds) :
              (p < q /\ Tied(OutIds[p], OutIds[q]))
                  => Before(FirstOccurrence(OutIds[p]), FirstOccurrence(OutIds[q]))
        /\ \A did \in AllIds :
              (\A p \in 1..Len(OutIds) : OutIds[p] # did)
                  => \A p \in 1..Len(OutIds) :
                        Tied(OutIds[p], did)
                            => Before(FirstOccurrence(OutIds[p]), FirstOccurrence(did))

\* two documents found by both searches in opposite order have equal
\* scores, and the one the first search ranked best is returned first
C27_Witness ==
    /\ Fused
    /\ Len(OutIds) >= 2
    /\ OutIds[1] # OutIds[2]
    /\ Occurrences(OutIds[1]) = {<<1, 1>>, <<2, 2>>}
    /\ Occurrences(OutIds[2]) = {<<1, 2>>, <<2, 1>>}

\* C28: the per-variant searches are issued in variant order, the merge
\* runs only when every variant's result list is there, never on a part of
\* them, and results_by_query[i] is the result of the search for variant i.
C28_SearchesThenMerge ==
    /\ \A i \in 1..Len(searches) : searches[i].variant = variants[i]
    /\ \A i \in 1..Len(results_by_query) :
          searches[i].exc = "none" /\ results_by_query[i] = searches[i].val
    /\ Fused => Len(results_by_query) = Len(variants)

\* two variants were searched with different results before the merge ran
C28_Witness ==
    /\ Fused
    /\ Len(variants) = 2
    /\ results_by_query[1] # results_by_query[2]
    /\ results_by_query[2] # <<>>

----
(* Claims about the pure functions (specification SpecFunctions) *)

Returned2(fn) == call.fn = fn /\ ret # Pending

A == call.args[1]
B == call.args[2]

\* C20: pct_change(a, b) is None exactly when a is absent, b is absent or
\* b == 0, and otherwise (a - b) / b * 100; bp_change(a, b) is None exactly
\* when a or b is absent, and otherwise (a - b) * 100; neither raises;
\* pct_change(110, 100) = 10 and bp_change(100, 98.5) = 150.
C20_Changes ==
    /\ Returned2("pct_change") =>
          /\ ret.exc = "none"
          /\ ret.val = None <=> (A = None \/ B = None \/ Val(B).num = 0)
          /\ ret.val # None =>
                Val(ret.val).num * Val(A).den * Val(B).num
                    = 100 * (Val(A).num * Val(B).den - Val(B).num * Val(A).den)
                          * Val(ret.val).den
          /\ (A = Some(Rat(110, 1)) /\ B = Some(Rat(100, 1)))
                => Val(ret.val).num = 10 * Val(ret.val).den
    /\ Returned2("bp_change") =>
          /\ ret.exc = "none"
          /\ ret.val = None <=> (A = None \/ B = None)
          /\ ret.val # None =>
                Val(ret.val).num * Val(A).den * Val(B).den
                    = 100 * (Val(A).num * Val(B).den - Val(B).num * Val(A).den)
                          * Val(ret.val).den
          /\ (A = Some(Rat(100, 1)) /\ B = Some(Rat(197, 2)))
                => Val(ret.val).num = 150 * Val(ret.val).den

\* pct_change was called with a base of zero and returned None
C20_Witness ==
    /\ Returned2("pct_change")
    /\ A = Some(Rat(110, 1))
    /\ B = Some(Rat(0, 2))
    /\ ret = Outcome("none", None)

\* both metadata fields of a document are present
HasSourceAndStart(doc) ==
    "source" \in DOMAIN doc.metadata /\ "start_index" \in DOMAIN doc.metadata

\* what the identity of a document is to be
IdentityOf(doc) ==
    IF HasSourceAndStart(doc)
    THEN doc.metadata["source"] \o <<":">> \o DecimalStr(doc.metadata["start_index"])
    ELSE HashDocId(doc)

\* C14: the identity of a document is source + ":" + start offset only when
\* both fields are present, and the content hash when either is missing;
\* so two documents of one source, without start offset and of different
\* content (here: different within the hashed prefix), get different
\* identities.
C14_IdentityFallsBackToHash ==
    Returned2("_stable_doc_id") =>
        /\ \A i \in 1..2 : ret.val[i] = IdentityOf(call.args[i])
        /\ ( /\ DOMAIN A.metadata = {"source"}
             /\ DOMAIN B.metadata = {"source"}
             /\ A.metadata["source"] = B.metadata["source"]
             /\ A.page_content.prefix # B.page_content.prefix )
              => ret.val[1] # ret.val[2]

\* the lines of a completion that are not blank, without their bullets
Suggestions(lines) ==
    LET kept == {i \in 1..Len(lines) : Strip(lines[i], Whitespace) # <<>>}
    IN  {Strip(lines[i], BulletChars) : i \in kept}

\* index of the first line that gives a suggestion
FirstSeen(lines, text) ==
    CHOOSE i \in 1..Len(lines) :
        /\ Strip(lines[i], BulletChars) = text
        /\ \A j \in 1..(i - 1) : Strip(lines[j], BulletChars) # text

\* C18: generate_query_variants returns a sequence that starts with the
\* original query and holds no string twice; its other elements are the
\* non-empty lines of the model's output, in first-seen order, without
\* those equal to the query or to an earlier line.
C18_QueryFirstThenDistinctLines ==
    (Returned2("generate_query_variants") /\ ret.exc = "none") =>
        LET out == ret.val
            lines == B.val
        IN  /\ out[1] = A
            /\ \A i, j \in 1..Len(out) : out[i] = out[j] => i = j
            /\ \A i \in 2..Len(out) : out[i] # <<>> /\ out[i] \in Suggestions(lines)
            /\ \A text \in Suggestions(lines) \ {<<>>} : \E i \in 1..Len(out) : out[i] = text
            /\ \A i, j \in 2..Len(out) :
                  i < j => FirstSeen(lines, out[i]) < FirstSeen(lines, out[j])

----
(* Claims about the completions issued (specification SpecClient) *)

\* C25: every model completion is issued after an allow() call that
\* returned true, one admitted allow() call accounts for at most one
\* completion, and no closed 60-second window holds more than max_ops
\* completions.
C25_EveryCompletionGated ==
    /\ \A i \in 1..Len(llm_calls) :
          /\ llm_calls[i].allow \in 1..Len(log)
          /\ log[llm_calls[i].allow].ok
    /\ \A i, j \in 1..Len(llm_calls) :
          llm_calls[i].allow = llm_calls[j].allow => i = j
    /\ \A i \in 1..Len(llm_calls) :
          Cardinality({j \in 1..Len(llm_calls) :
                          /\ llm_calls[i].t <= llm_calls[j].t
                          /\ llm_calls[j].t <= llm_calls[i].t + WINDOW}) <= max_ops

IndexBuilders ==
    {"build_faiss_from_documents", "add_url_content_to_index",
     "add_uploaded_files_to_index"}

\* C26: two different chunks written by an index builder never get the
\* same stable identity, so merging a result list that holds all of them
\* returns every one of them.
C26_ChunksKeepApart ==
    (call.fn \in IndexBuilders /\ ret # Pending /\ ret.exc = "none") =>
        LET docs == ret.val
        IN  /\ \A i, j \in 1..Len(docs) :
                  docs[i] # docs[j] => StableDocId(docs[i]) # StableDocId(docs[j])
            /\ Len(rrf_merge(<<docs>>, Len(docs), Len(docs)))
                  = Cardinality({docs[i] : i \in 1..Len(docs)})

\* the yield levels that _get_yield_data delivered
LatestYield == IF A = None THEN None ELSE Val(A).latest_yield
PastYield == IF A = None THEN None ELSE Val(A).past_yield

\* C29: in get_market_snapshot ust10y_bp is absent exactly when the latest
\* or the past yield level is absent; a level of 0.0 counts as present, so
\* with both levels present the snapshot holds the latest level and the
\* delta (latest - past) * 100.
C29_YieldDelta ==
    Returned2("get_market_snapshot") =>
        /\ ret.val.ust10y_bp = None <=> (LatestYield = None \/ PastYield = None)
        /\ (LatestYield # None /\ PastYield # None) =>
              /\ ret.val.ust10y = LatestYield
              /\ ret.val.ust10y_bp # None
              /\ Val(ret.val.ust10y_bp).num * Val(LatestYield).den * Val(PastYield).den
                    = 100 * (Val(LatestYield).num * Val(PastYield).den
                             - Val(PastYield).num * Val(LatestYield).den)
                          * Val(ret.val.ust10y_bp).den

----
(* Claims about conversation histories (specification SpecSessions) *)

HistoryOps == {"append_user", "append_assistant", "clear_history", "reset", "get_history"}

\* C30: an append_user, append_assistant, clear_history or reset call on
\* one controller leaves the history that get_history returns for every
\* other controller unchanged, and a newly created controller has an empty
\* history.
C30_HistoriesIsolated ==
    [][/\ call'.fn \in HistoryOps =>
            \A c \in 1..Len(controllers) :
                c # call'.args[1] =>
                    Messages(session_store', controllers[c]) = History(c)
       /\ call'.fn = "init_controller" =>
            Messages(session_store', controllers'[call'.args[1]]) = <<>>]_vars

====
